---- MODULE Spec2Model ----
(***************************************************************************)
(* State-machine model of sbws/lib/circuitbuilder.py,                      *)
(* sbws/lib/relaylist.py and sbws/lib/destination.py: the control-protocol *)
(* session as the builder sees it, the RelayList cache, CircuitBuilder's   *)
(* live-set, GapsCircuitBuilder's path filling, and the threads that ask   *)
(* a DestinationList for destinations and attach streams to circuits.      *)
(***************************************************************************)
EXTENDS Integers, Sequences, FiniteSets, TLC

\* ------------------------------------------------------------- bounds
\* Relays that exist in the modelled network.
NumRelays == 2
\* Longest PathSpec enumerated slot by slot (longer ones are all-empty).
MaxPathLen == 2
\* Circuits the daemon builds before every further create-circuit fails.
MaxCircuits == 2
\* Wall-clock seconds between two observations of the clock.
TickStep == 150
\* Last value of the clock.
MaxTime == 300
\* Longest blacklist handed to _random_sample_relays directly.
MaxBlacklist == 2
\* Threads that call DestinationList.next() or attach a stream.
NumThreads == 2
\* Configured destinations (DestinationList._all_dests).
NumDests == 2
\* Most candidate exits handed to the exit selection of the sweep.
MaxExits == 50
\* The configured usability_test_interval, in seconds.
usability_test_interval == 100
\* Most times the usability lock is held over at once (a sweep that raises
\* leaves it held once more).
MaxHeld == 3
\* Largest content length a HEAD response advertises, and largest max_dl.
MaxLength == 2
\* The size of the largest snapshot _random_sample_relays is followed over.
MaxSnapshot == 3

\* ---------------------------------------------------- program constants
REFRESH_INTERVAL == 300
\* What next() adds to the interval before it sleeps (0.0001 s in the code);
\* here the smallest step of the clock.
Epsilon == 1
\* requests.codes.ok
HTTP_OK == 200

\* ------------------------------------------------------------- values
\* A relay descriptor; identity is the fingerprint.
Relay(i) == [fingerprint |-> <<"fp", i>>, nickname |-> <<"nick", i>>]

AllRelays == {Relay(i) : i \in 1..NumRelays}

\* Python's None where a relay is expected.
None == [fingerprint |-> <<"None", 0>>, nickname |-> <<"None", 0>>]

\* A Falsey slot of a PathSpec.
NoneSlot == <<"None", 0>>

\* build_circuit returns None when no circuit was built; ids are 1, 2, ...
NoCircuit == 0

\* What a slot of a PathSpec may hold: nothing, a fingerprint, a nickname.
Slots ==
    {NoneSlot} \cup {<<"fp", i>> : i \in 1..NumRelays} \cup {<<"nick", 1>>}

\* The PathSpecs callers hand to build_circuit: every one of up to
\* MaxPathLen slots, and those of 8 and 9 slots that are empty or pin the
\* exit only.
PathSpecs ==
    UNION {[1..n -> Slots] : n \in 0..MaxPathLen}
    \cup {[i \in 1..n |-> NoneSlot] : n \in {8, 9}}
    \cup {[i \in 1..n |-> IF i = n THEN <<"fp", 1>> ELSE NoneSlot] : n \in {8, 9}}

Range(s) == {s[i] : i \in DOMAIN s}

\* The threads of the process, and no thread (the owner of a free lock).
Threads == 1..NumThreads
NoThread == 0

\* The configured destinations, in the order of _all_dests, and no
\* destination (a call that has returned none).
_all_dests == [d \in 1..NumDests |-> d]
NoDest == 0

\* Destination.port: the port of the URL, else the port of its scheme.
port(dest) == IF dest % 2 = 1 THEN 80 ELSE 443

\* The exit policies a relay or a microdescriptor carries: none at all, one
\* that accepts every port, one that rejects every port, one that accepts
\* port 80 only, and one whose evaluation raises KeyError.
Policies == {"None", "accept *:*", "reject *:*", "accept *:80", "KeyError"}

\* What the session knows of a relay: whether it has the Exit flag, the exit
\* policy its network status carries, the exit policy of its microdescriptor
\* ("unavailable" when the session cannot provide one), its bandwidth.
RelayKinds ==
    {[exit |-> FALSE, exit_policy |-> "accept *:*", micro |-> "accept *:*"],
     [exit |-> TRUE, exit_policy |-> "accept *:*", micro |-> "unavailable"],
     [exit |-> TRUE, exit_policy |-> "reject *:*", micro |-> "accept *:*"],
     [exit |-> TRUE, exit_policy |-> "accept *:80", micro |-> "accept *:*"],
     [exit |-> TRUE, exit_policy |-> "KeyError", micro |-> "accept *:*"],
     [exit |-> TRUE, exit_policy |-> "None", micro |-> "unavailable"],
     [exit |-> TRUE, exit_policy |-> "None", micro |-> "accept *:*"],
     [exit |-> TRUE, exit_policy |-> "None", micro |-> "accept *:80"],
     [exit |-> TRUE, exit_policy |-> "None", micro |-> "reject *:*"],
     [exit |-> TRUE, exit_policy |-> "None", micro |-> "None"],
     [exit |-> TRUE, exit_policy |-> "None", micro |-> "KeyError"]}

\* The bandwidth of the i-th of the relays: distinct for some, equal for
\* others.
bandwidth(i) == (i * 7) % 11

\* A candidate exit as the sweep reads it: fingerprint and bandwidth.
Exit(i) == [fingerprint |-> <<"fp", i>>, bandwidth |-> bandwidth(i)]

\* Lists of candidate exits of every length up to MaxExits: one with
\* bandwidths that are all distinct, one with bandwidths that repeat.
CandidateLists ==
    {[i \in 1..n |-> [fingerprint |-> <<"fp", i>>,
                      bandwidth |-> (i * 7) % m]]
        : n \in 0..MaxExits, m \in {11, 53}}

VARIABLES
    okay,                   \* is_controller_okay(controller)
    circuits,               \* the session's circuit table (open circuit ids)
    nextCirc,               \* the id the daemon gives its next circuit
    consensus,              \* the relays the daemon currently knows
    now,                    \* time.time()
    _relays,                \* RelayList._relays
    _last_refresh,          \* RelayList._last_refresh
    built_circuits,         \* CircuitBuilder.built_circuits
    close_circuits_on_exit, \* CircuitBuilder.close_circuits_on_exit
    deleted,                \* __del__ has run
    unclosed,               \* history: ids build_circuit returned and no
                            \* close_circuit call was made for
    ret,                    \* the last call: what it was given, did, returned
    descriptors,            \* per relay: Exit flag, exit policy, microdescriptor
    _usable_dests,          \* DestinationList._usable_dests
    _last_usability_test,   \* DestinationList._last_usability_test
    _usability_lock,        \* DestinationList._usability_lock (an RLock)
    stream_building_lock,   \* sbws.util.stem.stream_building_lock (its owner)
    listeners,              \* threads whose STREAM listener is registered
    pc,                     \* per thread: where it is in next() or in
                            \* connect_to_destination_over_circuit
    frame,                  \* per thread: the locals of the call it is in
    keep,                   \* the exit selection of one destination of a sweep
    reader,                 \* per thread in RelayList.relays: what its
                            \* _init_relays returned, what the property returned
    history,                \* history: how many fetches were issued, which
                            \* of them the two fields were stored from, and
                            \* the whole result of the one _relays is from
    sampling                \* the locals of one _random_sample_relays call

\* The state of sbws/lib/destination.py and of the relays' descriptors, and
\* the locals of the callers that are followed step by step.
destvars ==
    <<descriptors, _usable_dests, _last_usability_test, _usability_lock,
      stream_building_lock, listeners, pc, frame, keep, reader, history,
      sampling>>

\* The state of the session, the RelayList and the CircuitBuilder.
buildervars ==
    <<okay, circuits, nextCirc, consensus, now, _relays, _last_refresh,
      built_circuits, close_circuits_on_exit, deleted, unclosed, ret>>

vars ==
    <<okay, circuits, nextCirc, consensus, now, _relays, _last_refresh,
      built_circuits, close_circuits_on_exit, deleted, unclosed, ret,
      descriptors, _usable_dests, _last_usability_test, _usability_lock,
      stream_building_lock, listeners, pc, frame, keep, reader, history,
      sampling>>

\* The record of a call, before the call fills in its own fields.
NoCall ==
    [op |-> "none", fault |-> "none", path |-> <<>>, circ_id |-> NoCircuit,
     result |-> NoCircuit, built |-> <<>>, impl |-> FALSE,
     number |-> 0, blacklist |-> <<>>, sampled |-> FALSE, sample |-> <<>>,
     snapshot |-> {},
     resolves |-> 0, refreshes |-> 0, fetches |-> 0, creates |-> 0,
     faults |-> 0, closes |-> 0, close_fault |-> "none",
     port |-> 0, exits |-> <<>>]


\* ------------------------------------------------- sbws.util.stem helpers
\* Whether the session is healthy (alive and authenticated).
is_controller_okay == okay

\* The relay the daemon knows under this fingerprint or nickname, else None.
fp_or_nick_to_relay(fp_nick) ==
    IF \E r \in consensus : r.fingerprint = fp_nick \/ r.nickname = fp_nick
    THEN CHOOSE r \in consensus : r.fingerprint = fp_nick \/ r.nickname = fp_nick
    ELSE None

\* What fp_or_nick_to_relay raises: it requires a healthy session.
fp_or_nick_to_relay_fault ==
    IF is_controller_okay THEN "none" ELSE "AssertionError"

\* ---------------------------------------------------------------- RelayList
\* RelayList._init_relays: the network statuses of a healthy session.
_init_relays ==
    IF is_controller_okay
    THEN [fault |-> "none", relays |-> consensus, fetches |-> 1]
    ELSE [fault |-> "AssertionError", relays |-> {}, fetches |-> 0]

\* RelayList._refresh: fetch, then store the snapshot and the time. What the
\* two fields hold afterwards (unchanged when the fetch raised).
_refresh ==
    LET fetched == _init_relays
    IN  IF fetched.fault = "none"
        THEN [fault |-> "none", relays |-> fetched.relays, last_refresh |-> now,
              refreshes |-> 1, fetches |-> fetched.fetches]
        ELSE [fault |-> fetched.fault, relays |-> _relays,
              last_refresh |-> _last_refresh,
              refreshes |-> 1, fetches |-> fetched.fetches]

\* The staleness test with > for >=.
StaleOnlyAfterInterval == now > _last_refresh + REFRESH_INTERVAL

\* The staleness test of RelayList.relays.
Stale == now >= _last_refresh + REFRESH_INTERVAL

\* RelayList.relays (a property): refresh when stale, then the snapshot.
relays ==
    IF Stale
    THEN _refresh
    ELSE [fault |-> "none", relays |-> _relays, last_refresh |-> _last_refresh,
          refreshes |-> 0, fetches |-> 0]

\* A caller reads RelayList.relays.
ReadRelays ==
    /\ LET r == relays
       IN  /\ _relays' = r.relays
           /\ _last_refresh' = r.last_refresh
           /\ ret' = [NoCall EXCEPT !.op = "relays", !.fault = r.fault,
                                    !.snapshot = IF r.fault = "none"
                                                 THEN r.relays ELSE {},
                                    !.refreshes = r.refreshes,
                                    !.fetches = r.fetches]
    /\ UNCHANGED <<okay, circuits, nextCirc, consensus, now, built_circuits,
                   close_circuits_on_exit, deleted, unclosed>>

\* Controller.get_microdescriptor(fp): the exit policy of the relay's
\* microdescriptor, or the fault DescriptorUnavailable.
get_microdescriptor(i) ==
    IF descriptors[Relay(i)].micro = "unavailable"
    THEN [fault |-> "DescriptorUnavailable", exit_policy |-> "None"]
    ELSE [fault |-> "none", exit_policy |-> descriptors[Relay(i)].micro]

\* ExitPolicy.can_exit_to(port=p): whether the policy lets traffic leave to
\* the port, or the fault KeyError.
can_exit_to(policy, p) ==
    CASE policy = "accept *:*" -> "True"
      [] policy = "reject *:*" -> "False"
      [] policy = "accept *:80" -> IF p = 80 THEN "True" ELSE "False"
      [] OTHER -> "KeyError"

\* The body of the loop with a failed descriptor fetch left uncaught.
exit_outcome_raising(i, p) ==
    LET loaded == descriptors[Relay(i)].exit_policy
        fetched == get_microdescriptor(i)
        policy == IF loaded # "None" THEN loaded ELSE fetched.exit_policy
    IN  IF loaded = "None" /\ fetched.fault # "none"
        THEN fetched.fault
        ELSE IF policy # "None" /\ can_exit_to(policy, p) = "True"
        THEN "append"
        ELSE "continue"

\* The body of the loop of exits_can_exit_to for one Exit relay: the policy
\* the relay carries, else the one of its microdescriptor (a failed fetch
\* skips the relay); the relay is appended when the policy is there and
\* permits the port (a KeyError of the evaluation skips the relay).
exit_outcome(i, p) ==
    LET loaded == descriptors[Relay(i)].exit_policy
        fetched == get_microdescriptor(i)
        policy == IF loaded # "None" THEN loaded ELSE fetched.exit_policy
    IN  IF loaded = "None" /\ fetched.fault # "none"
        THEN "continue"
        ELSE IF policy # "None" /\ can_exit_to(policy, p) = "True"
        THEN "append"
        ELSE "continue"

\* The loop of exits_can_exit_to from the i-th relay on, over the Exit
\* relays of the snapshot, with the exits appended so far.
RECURSIVE exits_loop(_, _, _, _)
exits_loop(snapshot, p, i, exits) ==
    IF i > NumRelays
    THEN [fault |-> "none", exits |-> exits]
    ELSE IF Relay(i) \notin snapshot \/ ~descriptors[Relay(i)].exit
    THEN exits_loop(snapshot, p, i + 1, exits)
    ELSE LET o == exit_outcome(i, p)
         IN  CASE o = "append" ->
                    exits_loop(snapshot, p, i + 1, Append(exits, Exit(i)))
               [] o = "continue" -> exits_loop(snapshot, p, i + 1, exits)
               [] OTHER -> [fault |-> o, exits |-> <<>>]

\* RelayList.exits_can_exit_to(host, port) for a host that is an address:
\* reads the relays property (which refreshes a stale snapshot), then loops.
exits_can_exit_to(p) ==
    LET r == relays
        l == exits_loop(r.relays, p, 1, <<>>)
    IN  IF r.fault # "none"
        THEN [fault |-> r.fault, exits |-> <<>>, relays |-> r.relays,
              last_refresh |-> r.last_refresh, refreshes |-> r.refreshes,
              fetches |-> r.fetches]
        ELSE [fault |-> l.fault, exits |-> l.exits, relays |-> r.relays,
              last_refresh |-> r.last_refresh, refreshes |-> r.refreshes,
              fetches |-> r.fetches]


\* ----------------------------------------------------------- CircuitBuilder
\* valid_circuit_length with < 8 for <= 8.
valid_circuit_length_below_8(path) == Len(path) > 0 /\ Len(path) < 8

\* valid_circuit_length for a list.
valid_circuit_length(path) == Len(path) > 0 /\ Len(path) <= 8

\* The faults of new_circuit the construction routine retries on.
TransientFaults ==
    {"InvalidRequest", "CircuitExtensionFailed", "ProtocolError", "Timeout"}

\* What a call leaves untouched, for the fields a routine does not set.
Untouched ==
    [fault |-> "none", result |-> NoCircuit, built |-> <<>>, impl |-> FALSE,
     relays |-> _relays, last_refresh |-> _last_refresh,
     circuits |-> circuits, nextCirc |-> nextCirc,
     built_circuits |-> built_circuits,
     sampled |-> FALSE, sample |-> <<>>,
     resolves |-> 0, refreshes |-> 0, fetches |-> 0, creates |-> 0,
     faults |-> 0]

\* Iterations i, i+1, ... of the retry loop of _build_circuit_impl, of n in
\* all: new_circuit either returns the id of a circuit the daemon built and
\* the routine returns it, or raises a transient fault and the loop goes on;
\* after the last iteration the routine returns None.
RECURSIVE new_circuit_loop(_, _)
new_circuit_loop(i, n) ==
    IF i >= n
    THEN {[result |-> NoCircuit, creates |-> i, faults |-> i]}
    ELSE (IF nextCirc <= MaxCircuits
          THEN {[result |-> nextCirc, creates |-> i + 1, faults |-> i]}
          ELSE {})
         \cup (IF TransientFaults # {} THEN new_circuit_loop(i + 1, n) ELSE {})

\* _build_circuit_impl with a fourth iteration of the retry loop.
build_circuit_impl_four_tries(path) ==
    IF ~valid_circuit_length(path)
    THEN {[Untouched EXCEPT !.fault = "PathLengthException"]}
    ELSE IF ~is_controller_okay
    THEN {[Untouched EXCEPT !.fault = "AssertionError"]}
    ELSE {[Untouched EXCEPT
              !.result = a.result,
              !.creates = a.creates,
              !.faults = a.faults,
              !.circuits = IF a.result # NoCircuit
                           THEN circuits \cup {a.result} ELSE circuits,
              !.nextCirc = IF a.result # NoCircuit
                           THEN nextCirc + 1 ELSE nextCirc]
          : a \in new_circuit_loop(0, 4)}

\* _build_circuit_impl made to add the id it returns to built_circuits.
build_circuit_impl_recording(path) ==
    IF ~valid_circuit_length(path)
    THEN {[Untouched EXCEPT !.fault = "PathLengthException"]}
    ELSE IF ~is_controller_okay
    THEN {[Untouched EXCEPT !.fault = "AssertionError"]}
    ELSE {[Untouched EXCEPT
              !.result = a.result,
              !.creates = a.creates,
              !.faults = a.faults,
              !.circuits = IF a.result # NoCircuit
                           THEN circuits \cup {a.result} ELSE circuits,
              !.nextCirc = IF a.result # NoCircuit
                           THEN nextCirc + 1 ELSE nextCirc,
              !.built_circuits = IF a.result # NoCircuit
                                 THEN built_circuits \cup {a.result}
                                 ELSE built_circuits]
          : a \in new_circuit_loop(0, 3)}

\* CircuitBuilder._build_circuit_impl: the outcomes of one call.
_build_circuit_impl(path) ==
    IF ~valid_circuit_length(path)
    THEN {[Untouched EXCEPT !.fault = "PathLengthException"]}
    ELSE IF ~is_controller_okay
    THEN {[Untouched EXCEPT !.fault = "AssertionError"]}
    ELSE {[Untouched EXCEPT
              !.result = a.result,
              !.creates = a.creates,
              !.faults = a.faults,
              !.circuits = IF a.result # NoCircuit
                           THEN circuits \cup {a.result} ELSE circuits,
              !.nextCirc = IF a.result # NoCircuit
                           THEN nextCirc + 1 ELSE nextCirc]
          : a \in new_circuit_loop(0, 3)}

\* close_circuit without the get_circuit test: the close call is issued for
\* any id, and the daemon answers InvalidArguments for one it does not list.
close_circuit_unguarded(circ_id) ==
    LET nothing == [fault |-> "none", circuits |-> circuits,
                    built_circuits |-> built_circuits,
                    closes |-> 0, close_fault |-> "none"]
    IN  IF ~is_controller_okay
        THEN {nothing}
        ELSE {[nothing EXCEPT !.circuits = circuits \ {circ_id},
                              !.built_circuits = built_circuits \ {circ_id},
                              !.closes = 1,
                              !.close_fault = cf]
              : cf \in IF circ_id \in circuits
                       THEN {"none", "InvalidArguments"}
                       ELSE {"InvalidArguments"}}

\* CircuitBuilder.close_circuit: the outcomes of one call. The close call of
\* a circuit the session listed either closes it or finds it gone
\* (InvalidArguments, swallowed).
close_circuit(circ_id) ==
    LET nothing == [fault |-> "none", circuits |-> circuits,
                    built_circuits |-> built_circuits,
                    closes |-> 0, close_fault |-> "none"]
    IN  IF ~is_controller_okay
        THEN {nothing}
        ELSE IF circ_id \in circuits
        THEN {[nothing EXCEPT !.circuits = circuits \ {circ_id},
                              !.built_circuits = built_circuits \ {circ_id},
                              !.closes = 1,
                              !.close_fault = cf]
              : cf \in {"none", "InvalidArguments"}}
        ELSE {nothing}

\* CircuitBuilder.__del__: what the session's circuit table and the live-set
\* hold afterwards.
__del__ ==
    IF ~close_circuits_on_exit
    THEN [circuits |-> circuits, built_circuits |-> built_circuits, closes |-> 0]
    ELSE IF ~is_controller_okay
    THEN [circuits |-> circuits, built_circuits |-> built_circuits, closes |-> 0]
    ELSE [circuits |-> circuits \ built_circuits,
          built_circuits |-> {},
          closes |-> Cardinality(built_circuits \cap circuits)]


\* ------------------------------------------------------- GapsCircuitBuilder
\* Slots i, i+1, ... of GapsCircuitBuilder._normalize_path: a Falsey slot
\* becomes None, a pinned one the relay it resolves to; a slot that does not
\* resolve ends the routine with None (ok = FALSE). Resolving asks the
\* session, which must be healthy.
RECURSIVE normalize_from(_, _, _, _)
normalize_from(path, i, new_path, resolves) ==
    IF i > Len(path)
    THEN [fault |-> "none", ok |-> TRUE, new_path |-> new_path,
          resolves |-> resolves]
    ELSE IF path[i] = NoneSlot
    THEN normalize_from(path, i + 1, Append(new_path, None), resolves)
    ELSE IF fp_or_nick_to_relay_fault # "none"
    THEN [fault |-> fp_or_nick_to_relay_fault, ok |-> FALSE,
          new_path |-> new_path, resolves |-> resolves]
    ELSE LET relay == fp_or_nick_to_relay(path[i])
         IN  IF relay = None
             THEN [fault |-> "none", ok |-> FALSE, new_path |-> new_path,
                   resolves |-> resolves + 1]
             ELSE normalize_from(path, i + 1, Append(new_path, relay),
                                 resolves + 1)

_normalize_path(path) == normalize_from(path, 1, <<>>, 0)

\* The while loop of _random_sample_relays: how it can end. A pick that is
\* in black_fps changes nothing and is drawn again; an accepted pick goes to
\* chosen_fps and black_fps. When every fingerprint of all_fps is in
\* black_fps no pick is ever accepted and the loop spins for ever
\* (ends = FALSE).
RECURSIVE rejection_sampling(_, _, _, _)
rejection_sampling(all_fps, black_fps, chosen_fps, number) ==
    IF Len(chosen_fps) >= number
    THEN {[ends |-> TRUE, chosen_fps |-> chosen_fps]}
    ELSE IF \A fp \in all_fps : fp \in Range(black_fps)
    THEN {[ends |-> FALSE, chosen_fps |-> chosen_fps]}
    ELSE UNION {rejection_sampling(all_fps, Append(black_fps, choice),
                                   Append(chosen_fps, choice), number)
                : choice \in {fp \in all_fps : fp \notin Range(black_fps)}}

\* The size test with the blacklist left out.
too_many_blacklisted_ignoring_blacklist(all_fps, black_fps, number) ==
    number > Cardinality(all_fps)

\* The size test with one blacklisted relay too many let through.
too_many_blacklisted_but_one(all_fps, black_fps, number) ==
    Len(black_fps) + number > Cardinality(all_fps) + 1

\* The size test of _random_sample_relays: too many are blacklisted.
too_many_blacklisted(all_fps, black_fps, number) ==
    Len(black_fps) + number > Cardinality(all_fps)

\* GapsCircuitBuilder._random_sample_relays: the outcomes of one call. It
\* reads self.relays, and turns each chosen fingerprint back into a relay by
\* asking the session.
_random_sample_relays(number, blacklist) ==
    LET r == relays
        read == [Untouched EXCEPT !.relays = r.relays,
                                  !.last_refresh = r.last_refresh,
                                  !.refreshes = r.refreshes,
                                  !.fetches = r.fetches]
        all_fps == {x.fingerprint : x \in r.relays}
        black_fps == [i \in DOMAIN blacklist |-> blacklist[i].fingerprint]
    IN  IF r.fault # "none"
        THEN {[read EXCEPT !.fault = r.fault]}
        ELSE IF too_many_blacklisted(all_fps, black_fps, number)
        THEN {read}
        ELSE {IF ~loop.ends
              THEN [read EXCEPT !.fault = "never returns"]
              ELSE IF number > 0 /\ fp_or_nick_to_relay_fault # "none"
              THEN [read EXCEPT !.fault = fp_or_nick_to_relay_fault]
              ELSE [read EXCEPT
                       !.sampled = TRUE,
                       !.sample = [i \in DOMAIN loop.chosen_fps |->
                                      fp_or_nick_to_relay(loop.chosen_fps[i])],
                       !.resolves = Len(loop.chosen_fps)]
              : loop \in rejection_sampling(all_fps, black_fps, <<>>, number)}

\* The path build_circuit hands on: a pinned relay's fingerprint, and for
\* each empty slot the fingerprint of insert_relays.pop().
RECURSIVE fill_from(_, _, _)
fill_from(path, i, insert_relays) ==
    IF i > Len(path)
    THEN <<>>
    ELSE IF path[i] # None
    THEN <<path[i].fingerprint>> \o fill_from(path, i + 1, insert_relays)
    ELSE <<insert_relays[Len(insert_relays)].fingerprint>>
         \o fill_from(path, i + 1,
                      SubSeq(insert_relays, 1, Len(insert_relays) - 1))

\* GapsCircuitBuilder.build_circuit: the outcomes of one call.
build_circuit(path) ==
    IF ~valid_circuit_length(path)
    THEN {[Untouched EXCEPT !.fault = "PathLengthException"]}
    ELSE
    LET n == _normalize_path(path)
        num_missing == Cardinality({i \in DOMAIN n.new_path : n.new_path[i] = None})
        blacklist == SelectSeq(n.new_path, LAMBDA x : x # None)
    IN  IF n.fault # "none"
        THEN {[Untouched EXCEPT !.fault = n.fault, !.resolves = n.resolves]}
        ELSE IF ~n.ok
        THEN {[Untouched EXCEPT !.resolves = n.resolves]}
        ELSE UNION {
            LET done == [s EXCEPT !.resolves = n.resolves + s.resolves]
            IN  IF s.fault # "none" \/ ~s.sampled
                THEN {done}
                ELSE IF None \in Range(s.sample)
                THEN {[done EXCEPT !.fault = "AttributeError"]}
                ELSE LET fp_path == fill_from(n.new_path, 1, s.sample)
                     IN  {[done EXCEPT !.built = fp_path,
                                       !.impl = TRUE,
                                       !.fault = b.fault,
                                       !.result = b.result,
                                       !.creates = b.creates,
                                       !.faults = b.faults,
                                       !.circuits = b.circuits,
                                       !.nextCirc = b.nextCirc,
                                       !.built_circuits = b.built_circuits]
                          : b \in _build_circuit_impl(fp_path)}
            : s \in _random_sample_relays(num_missing, blacklist)}


\* ------------------------------------------------- sbws/lib/destination.py
\* What requests_utils.head gives: a response with a status code and maybe a
\* content-length header, or one of the faults the routine catches, or
\* another fault.
NoHead == [kind |-> "none", status_code |-> 0, has_length |-> FALSE,
           content_length |-> 0]

Heads ==
    {[NoHead EXCEPT !.kind = k]
        : k \in {"ConnectionError", "ReadTimeout", "OtherError"}}
    \cup {[kind |-> "response", status_code |-> s, has_length |-> FALSE,
           content_length |-> 0] : s \in {HTTP_OK, 404}}
    \cup {[kind |-> "response", status_code |-> s, has_length |-> TRUE,
           content_length |-> l] : s \in {HTTP_OK, 404}, l \in 0..MaxLength}

\* The size test with >= for >.
too_small_or_equal(max_dl, content_length) == max_dl >= content_length

\* The size test of connect_to_destination_over_circuit: the content is
\* shorter than the configured download size.
too_small(max_dl, content_length) == max_dl > content_length

\* What connect_to_destination_over_circuit returns or raises once
\* requests_utils.head has returned or raised: (False, reason) for a fault
\* it catches and for a response that fails one of the three tests,
\* (True, content length) otherwise.
connect_result(head, max_dl) ==
    CASE head.kind \in {"ConnectionError", "ReadTimeout"} ->
            [fault |-> "none", usable |-> "False", data |-> "could not connect"]
      [] head.kind = "response" /\ head.status_code # HTTP_OK ->
            [fault |-> "none", usable |-> "False", data |-> "status code"]
      [] head.kind = "response" /\ head.status_code = HTTP_OK
            /\ ~head.has_length ->
            [fault |-> "none", usable |-> "False", data |-> "no content-length"]
      [] head.kind = "response" /\ head.status_code = HTTP_OK
            /\ head.has_length /\ too_small(max_dl, head.content_length) ->
            [fault |-> "none", usable |-> "False", data |-> "content too small"]
      [] head.kind = "response" /\ head.status_code = HTTP_OK
            /\ head.has_length /\ ~too_small(max_dl, head.content_length) ->
            [fault |-> "none", usable |-> "True", data |-> "content_length"]
      [] OTHER ->
            [fault |-> head.kind, usable |-> "none", data |-> "none"]

\* Destination._max_dl: the configured max_download_size.
_max_dl == 1

\* DestinationList._should_perform_usability_test.
_should_perform_usability_test ==
    _last_usability_test + usability_test_interval < now

\* How long next() sleeps when no destination is usable.
time_till_next_check == usability_test_interval + Epsilon

\* Keeping the smaller of 3 and 10%.
num_keep_smaller(n) == IF 3 < n \div 10 THEN 3 ELSE n \div 10

\* num_keep = int(max(3, n * 0.1)): the product is a float within one ulp of
\* n/10 and int() drops its fraction, which for a count n is n \div 10.
num_keep(n) == IF 3 > n \div 10 THEN 3 ELSE n \div 10

\* Where sorted(..., key=bandwidth, reverse=True) puts the j-th candidate:
\* behind every faster one and, the sort being stable, behind the equally
\* fast ones that came before it.
place_by_bandwidth(possible_exits, j) ==
    1 + Cardinality({k \in DOMAIN possible_exits :
            \/ possible_exits[k].bandwidth > possible_exits[j].bandwidth
            \/ /\ possible_exits[k].bandwidth = possible_exits[j].bandwidth
               /\ k < j})

\* The candidates sorted by bandwidth, fastest first.
sorted_by_bandwidth(possible_exits) ==
    [q \in DOMAIN possible_exits |->
        possible_exits[CHOOSE j \in DOMAIN possible_exits :
            place_by_bandwidth(possible_exits, j) = q]]

\* The exits the sweep keeps for a destination: the first num_keep of the
\* candidates sorted by bandwidth, fastest first (a slice: all of them when
\* there are fewer than num_keep).
fastest_exits(possible_exits) ==
    LET sorted == sorted_by_bandwidth(possible_exits)
        n == num_keep(Len(possible_exits))
    IN  SubSeq(sorted, 1, IF n < Len(sorted) THEN n ELSE Len(sorted))

\* The orders rng.shuffle can leave a list in.
shuffle(list) ==
    {[j \in DOMAIN list |-> list[p[j]]]
        : p \in {q \in [DOMAIN list -> DOMAIN list] :
                    \A a, b \in DOMAIN list : a # b => q[a] # q[b]}}

\* ------------------------------------------------------------------ actions
\* The locals of a thread that is in no call.
NoFrame ==
    [i |-> 0, usable_dests |-> <<>>, exits |-> <<>>, tries |-> 0,
     circ_id |-> NoCircuit, built |-> {}, slept |-> FALSE,
     result |-> NoDest, fault |-> "none", dest |-> NoDest,
     head |-> NoHead, max_dl |-> 0, usable |-> "none", data |-> "none"]

\* No candidate exits have been selected.
NoKeep == [stage |-> "none", possible_exits |-> <<>>, exits |-> <<>>,
           tries |-> 0, path |-> <<>>, fault |-> "none"]

\* A relay with the Exit flag whose network status carries a policy that
\* accepts every port.
ExitRelay == [exit |-> TRUE, exit_policy |-> "accept *:*", micro |-> "unavailable"]

\* A relay with the Exit flag whose network status carries a policy that
\* accepts port 80 only.
ExitTo80Relay ==
    [exit |-> TRUE, exit_policy |-> "accept *:80", micro |-> "unavailable"]

\* A relay without the Exit flag.
NotExitRelay == [exit |-> FALSE, exit_policy |-> "accept *:*", micro |-> "accept *:*"]

\* The state after DestinationList.__init__, with every thread outside of
\* next() and of connect_to_destination_over_circuit.
NoDestinationList ==
    /\ _usable_dests = <<>>
    /\ _last_usability_test = 0
    /\ _usability_lock = [owner |-> NoThread, count |-> 0]
    /\ stream_building_lock = NoThread
    /\ listeners = {}
    /\ pc = [t \in Threads |-> "idle"]
    /\ frame = [t \in Threads |-> NoFrame]

\* What a thread in RelayList.relays holds before it fetched or read
\* anything.
NoFetch == [relays |-> {}, fetch |-> 0, fault |-> "none", snapshot |-> {}]

\* No _random_sample_relays call is followed.
NoSampling ==
    [stage |-> "none", number |-> 0, blacklist |-> <<>>, all_fps |-> {},
     black_fps |-> <<>>, chosen_fps |-> <<>>, choice |-> NoneSlot,
     dropped |-> FALSE, fault |-> "none"]

\* The history where the single fetches are not followed.
NoHistory == [issued |-> 0, cached |-> 0, stamped |-> 0, whole |-> {}]

\* No thread reads the relays property step by step and no
\* _random_sample_relays call is followed.
NoCallers ==
    /\ reader = [t \in Threads |-> NoFetch]
    /\ history = NoHistory
    /\ sampling = NoSampling

\* The state after CircuitBuilder.__init__ (RelayList.__init__ refreshes, so
\* the session was healthy and the snapshot is the daemon's view).
Init ==
    /\ okay = TRUE
    /\ circuits = {}
    /\ nextCirc = 1
    /\ consensus \in SUBSET AllRelays
    /\ now = 0
    /\ _relays = consensus
    /\ _last_refresh = now
    /\ built_circuits = {}
    /\ close_circuits_on_exit \in BOOLEAN
    /\ deleted = FALSE
    /\ unclosed = {}
    /\ ret = NoCall
    /\ descriptors = [r \in AllRelays |-> ExitRelay]
    /\ NoDestinationList
    /\ keep = NoKeep
    /\ NoCallers

\* The single caller is between two calls and the builder still exists.
Idle == ~deleted /\ ret.op = "none"

\* A caller calls GapsCircuitBuilder.build_circuit(path).
BuildCircuit(path) ==
    /\ Idle
    /\ \E o \in build_circuit(path) :
        /\ _relays' = o.relays
        /\ _last_refresh' = o.last_refresh
        /\ circuits' = o.circuits
        /\ nextCirc' = o.nextCirc
        /\ built_circuits' = o.built_circuits
        /\ unclosed' = IF o.result # NoCircuit
                       THEN unclosed \cup {o.result} ELSE unclosed
        /\ ret' = [NoCall EXCEPT !.op = "build_circuit", !.path = path,
                                 !.fault = o.fault, !.result = o.result,
                                 !.built = o.built, !.impl = o.impl,
                                 !.sampled = o.sampled, !.sample = o.sample,
                                 !.resolves = o.resolves,
                                 !.refreshes = o.refreshes,
                                 !.fetches = o.fetches,
                                 !.creates = o.creates,
                                 !.faults = o.faults]
    /\ UNCHANGED <<okay, consensus, now, close_circuits_on_exit, deleted>>

\* A caller calls close_circuit(circ_id).
CloseCircuit(circ_id) ==
    /\ Idle
    /\ \E o \in close_circuit(circ_id) :
        /\ circuits' = o.circuits
        /\ built_circuits' = o.built_circuits
        /\ ret' = [NoCall EXCEPT !.op = "close_circuit", !.circ_id = circ_id,
                                 !.fault = o.fault, !.closes = o.closes,
                                 !.close_fault = o.close_fault]
    /\ unclosed' = unclosed \ {circ_id}
    /\ UNCHANGED <<okay, nextCirc, consensus, now, _relays, _last_refresh,
                   close_circuits_on_exit, deleted>>

\* The builder is deleted: __del__ runs.
Del ==
    /\ Idle
    /\ LET o == __del__
       IN  /\ circuits' = o.circuits
           /\ built_circuits' = o.built_circuits
           /\ ret' = [NoCall EXCEPT !.op = "__del__", !.closes = o.closes]
    /\ deleted' = TRUE
    /\ UNCHANGED <<okay, nextCirc, consensus, now, _relays, _last_refresh,
                   close_circuits_on_exit, unclosed>>

\* _random_sample_relays(number, blacklist) called on its own.
SampleRelays(number, blacklist) ==
    /\ Idle
    /\ \E o \in _random_sample_relays(number, blacklist) :
        /\ _relays' = o.relays
        /\ _last_refresh' = o.last_refresh
        /\ ret' = [NoCall EXCEPT !.op = "_random_sample_relays",
                                 !.number = number, !.blacklist = blacklist,
                                 !.fault = o.fault,
                                 !.sampled = o.sampled, !.sample = o.sample,
                                 !.resolves = o.resolves,
                                 !.refreshes = o.refreshes,
                                 !.fetches = o.fetches]
    /\ UNCHANGED <<okay, circuits, nextCirc, consensus, now, built_circuits,
                   close_circuits_on_exit, deleted, unclosed>>

\* A caller reads the relays property.
Relays ==
    /\ Idle
    /\ ReadRelays

\* Time passes.
Tick ==
    /\ Idle
    /\ now + TickStep <= MaxTime
    /\ now' = now + TickStep
    /\ UNCHANGED <<ret, okay, circuits, nextCirc, consensus, _relays, _last_refresh,
                   built_circuits, close_circuits_on_exit, deleted, unclosed>>

\* The daemon learns a new consensus: relays come and go.
ConsensusChanges ==
    /\ Idle
    /\ \E c \in SUBSET AllRelays :
        /\ c # consensus
        /\ consensus' = c
    /\ UNCHANGED <<ret, okay, circuits, nextCirc, now, _relays, _last_refresh,
                   built_circuits, close_circuits_on_exit, deleted, unclosed>>

\* The session dies (the daemon goes away, the socket closes).
ControllerDies ==
    /\ Idle
    /\ okay
    /\ okay' = FALSE
    /\ UNCHANGED <<ret, circuits, nextCirc, consensus, now, _relays, _last_refresh,
                   built_circuits, close_circuits_on_exit, deleted, unclosed>>

\* The daemon closes a circuit on its own (it expired, a relay left).
CircuitGoes ==
    /\ Idle
    /\ \E c \in circuits : circuits' = circuits \ {c}
    /\ UNCHANGED <<ret, okay, nextCirc, consensus, now, _relays, _last_refresh,
                   built_circuits, close_circuits_on_exit, deleted, unclosed>>

\* The caller takes the result of the call that returned.
Return ==
    /\ ret.op # "none"
    /\ ret' = NoCall
    /\ UNCHANGED <<okay, circuits, nextCirc, consensus, now, _relays,
                   _last_refresh, built_circuits, close_circuits_on_exit,
                   deleted, unclosed>>

\* The blacklists handed to _random_sample_relays: lists of relays, which may
\* repeat a relay or name one the snapshot does not hold.
Blacklists == UNION {[1..n -> AllRelays] : n \in 0..MaxBlacklist}

\* The builder's life: circuits are built, closed and torn down over a
\* session that may die and a daemon that may drop circuits.
Next ==
    /\ \/ \E path \in PathSpecs : BuildCircuit(path)
       \/ \E circ_id \in 1..MaxCircuits : CloseCircuit(circ_id)
       \/ Del
       \/ ControllerDies
       \/ CircuitGoes
       \/ Return
    /\ UNCHANGED destvars

Spec == Init /\ [][Next]_vars

\* Path filling over a relay list that ages and a consensus that changes.
InitFill == Init /\ close_circuits_on_exit = TRUE

NextFill ==
    /\ \/ \E path \in PathSpecs : BuildCircuit(path)
       \/ \E number \in 0..NumRelays, blacklist \in Blacklists :
             SampleRelays(number, blacklist)
       \/ Relays
       \/ Tick
       \/ ConsensusChanges
       \/ ControllerDies
       \/ Return
    /\ UNCHANGED destvars

SpecFill == InitFill /\ [][NextFill]_vars

\* --------------------------------------------- DestinationList, by thread
\* What every step of a thread in next() leaves alone.
NotOfNext ==
    UNCHANGED <<okay, consensus, close_circuits_on_exit, deleted, ret,
                descriptors, stream_building_lock, listeners, keep, reader,
                history, sampling>>

\* What a step of next() that touches neither the session nor the relay
\* list leaves alone.
NotOfSession ==
    UNCHANGED <<circuits, nextCirc, _relays, _last_refresh, built_circuits,
                unclosed>>

\* Whether the RLock lets thread t in: it is free, or t holds it already.
acquirable(t) == _usability_lock.owner \in {NoThread, t}

\* The RLock after t acquired it, and after t released it once.
acquired(t) == [owner |-> t, count |-> _usability_lock.count + 1]
released(t) ==
    IF _usability_lock.count > 1
    THEN [owner |-> _usability_lock.owner, count |-> _usability_lock.count - 1]
    ELSE [owner |-> NoThread, count |-> 0]

\* next() entered without taking the lock.
next_enters_unlocked(t) == TRUE

\* `with self._usability_lock` of next(): t gets past it when it can
\* acquire the lock.
next_enters(t) == acquirable(t)

\* Thread t calls next() and enters the with block.
CallNext(t) ==
    /\ pc[t] = "idle"
    /\ ~deleted
    /\ next_enters(t)
    /\ _usability_lock.count + 2 <= MaxHeld
    /\ _usability_lock' = acquired(t)
    /\ pc' = [pc EXCEPT ![t] = "check"]
    /\ frame' = [frame EXCEPT ![t] = NoFrame]
    /\ UNCHANGED <<now, _usable_dests, _last_usability_test>>
    /\ NotOfSession /\ NotOfNext

\* The refresh check at the head of the loop of next().
ShouldPerform(t) ==
    /\ pc[t] = "check"
    /\ pc' = [pc EXCEPT ![t] = IF _should_perform_usability_test
                               THEN "perform" ELSE "len"]
    /\ frame' = [frame EXCEPT ![t].slept = FALSE]
    /\ UNCHANGED <<now, _usable_dests, _last_usability_test, _usability_lock>>
    /\ NotOfSession /\ NotOfNext

\* _perform_usability_test begins: it acquires the lock again and starts
\* with an empty list of its own.
Perform(t) ==
    /\ pc[t] = "perform"
    /\ acquirable(t)
    /\ _usability_lock' = acquired(t)
    /\ frame' = [frame EXCEPT ![t].i = 1, ![t].usable_dests = <<>>,
                              ![t].built = {}]
    /\ pc' = [pc EXCEPT ![t] = "for"]
    /\ UNCHANGED <<now, _usable_dests, _last_usability_test>>
    /\ NotOfSession /\ NotOfNext

\* A fault leaves _perform_usability_test (which does not release the lock)
\* and then the with block of next() (which releases it once).
Raised(t, f, fault) ==
    /\ frame' = [frame EXCEPT ![t] = [f EXCEPT !.fault = fault]]
    /\ pc' = [pc EXCEPT ![t] = "raised"]
    /\ _usability_lock' = released(t)

\* The loop of the sweep goes on to the next destination, or ends.
Continue(t, f) ==
    /\ frame' = [frame EXCEPT ![t] = [f EXCEPT !.i = f.i + 1,
                                               !.exits = <<>>,
                                               !.tries = 0,
                                               !.circ_id = NoCircuit]]
    /\ pc' = [pc EXCEPT ![t] = IF f.i + 1 <= NumDests
                               THEN "for" ELSE "store_usable"]
    /\ UNCHANGED _usability_lock

\* The sweep turns to destination i: the candidate exits, the fastest kept.
For(t) ==
    /\ pc[t] = "for"
    /\ LET o == exits_can_exit_to(port(_all_dests[frame[t].i]))
       IN  /\ _relays' = o.relays
           /\ _last_refresh' = o.last_refresh
           /\ IF o.fault # "none"
              THEN Raised(t, frame[t], o.fault)
              ELSE /\ frame' = [frame EXCEPT
                                   ![t].exits = fastest_exits(o.exits),
                                   ![t].tries = 0]
                   /\ pc' = [pc EXCEPT ![t] = "choice"]
                   /\ UNCHANGED _usability_lock
    /\ UNCHANGED <<now, _usable_dests, _last_usability_test, circuits,
                   nextCirc, built_circuits, unclosed>>
    /\ NotOfNext

\* One turn of the loop that tries to build the throwaway circuit: a random
\* one of the kept exits (IndexError when none is kept), a circuit [empty,
\* exit]; the loop ends with the first circuit, else after three turns.
Choice(t) ==
    /\ pc[t] = "choice"
    /\ IF frame[t].exits = <<>>
       THEN /\ Raised(t, frame[t], "IndexError")
            /\ NotOfSession
       ELSE \E exit \in Range(frame[t].exits) :
            \E o \in build_circuit(<<NoneSlot, exit.fingerprint>>) :
              /\ _relays' = o.relays
              /\ _last_refresh' = o.last_refresh
              /\ circuits' = o.circuits
              /\ nextCirc' = o.nextCirc
              /\ built_circuits' = o.built_circuits
              /\ unclosed' = IF o.result # NoCircuit
                             THEN unclosed \cup {o.result} ELSE unclosed
              /\ CASE o.fault # "none" -> Raised(t, frame[t], o.fault)
                   [] o.fault = "none" /\ o.result # NoCircuit ->
                        /\ frame' = [frame EXCEPT
                                ![t].circ_id = o.result,
                                ![t].tries = frame[t].tries + 1,
                                ![t].built = frame[t].built \cup {o.result}]
                        /\ pc' = [pc EXCEPT ![t] = "is_usable"]
                        /\ UNCHANGED _usability_lock
                   [] o.fault = "none" /\ o.result = NoCircuit
                        /\ frame[t].tries + 1 < 3 ->
                        /\ frame' = [frame EXCEPT
                                ![t].tries = frame[t].tries + 1]
                        /\ UNCHANGED <<pc, _usability_lock>>
                   [] OTHER -> Continue(t, frame[t])
    /\ UNCHANGED <<now, _usable_dests, _last_usability_test>>
    /\ NotOfNext

\* The list of the sweep with a usable destination appended to the cached
\* list instead.
cached_patched(dest) == Append(_usable_dests, dest)

\* The cached list once the sweep has found a destination usable: what it
\* was, the destination went on the sweep's own list.
cached_after_append(dest) == _usable_dests

\* dest.is_usable over the throwaway circuit: a destination that is not
\* usable is skipped (its circuit stays), a usable one is appended.
IsUsable(t) ==
    /\ pc[t] = "is_usable"
    /\ \E head \in Heads :
        LET r == connect_result(head, _max_dl)
            dest == _all_dests[frame[t].i]
        IN  CASE r.fault # "none" ->
                    /\ Raised(t, frame[t], r.fault)
                    /\ UNCHANGED _usable_dests
              [] r.fault = "none" /\ r.usable = "False" ->
                    /\ Continue(t, frame[t])
                    /\ UNCHANGED _usable_dests
              [] OTHER ->
                    /\ frame' = [frame EXCEPT
                            ![t].usable_dests =
                                Append(frame[t].usable_dests, dest)]
                    /\ _usable_dests' = cached_after_append(dest)
                    /\ pc' = [pc EXCEPT ![t] = "close_circuit"]
                    /\ UNCHANGED _usability_lock
    /\ UNCHANGED <<now, _last_usability_test>>
    /\ NotOfSession /\ NotOfNext

\* The sweep closes the throwaway circuit of a usable destination.
CloseThrowaway(t) ==
    /\ pc[t] = "close_circuit"
    /\ \E o \in close_circuit(frame[t].circ_id) :
        /\ circuits' = o.circuits
        /\ built_circuits' = o.built_circuits
    /\ unclosed' = unclosed \ {frame[t].circ_id}
    /\ Continue(t, frame[t])
    /\ UNCHANGED <<now, _usable_dests, _last_usability_test, nextCirc,
                   _relays, _last_refresh>>
    /\ NotOfNext

\* The sweep is through: its list replaces the cached one.
StoreUsable(t) ==
    /\ pc[t] = "store_usable"
    /\ _usable_dests' = frame[t].usable_dests
    /\ pc' = [pc EXCEPT ![t] = "store_time"]
    /\ UNCHANGED <<now, _last_usability_test, _usability_lock, frame>>
    /\ NotOfSession /\ NotOfNext

\* Then the time of the test is taken.
StoreTime(t) ==
    /\ pc[t] = "store_time"
    /\ _last_usability_test' = now
    /\ pc' = [pc EXCEPT ![t] = "release"]
    /\ UNCHANGED <<now, _usable_dests, _usability_lock, frame>>
    /\ NotOfSession /\ NotOfNext

\* _perform_usability_test releases the lock it acquired and returns.
Release(t) ==
    /\ pc[t] = "release"
    /\ _usability_lock' = released(t)
    /\ pc' = [pc EXCEPT ![t] = "len"]
    /\ UNCHANGED <<now, _usable_dests, _last_usability_test, frame>>
    /\ NotOfSession /\ NotOfNext

\* The loop of next() ends when a destination is usable, and with it the
\* with block: the lock is released. Else the thread is about to sleep.
TestLen(t) ==
    /\ pc[t] = "len"
    /\ IF Len(_usable_dests) > 0
       THEN /\ pc' = [pc EXCEPT ![t] = "shuffle"]
            /\ _usability_lock' = released(t)
       ELSE /\ pc' = [pc EXCEPT ![t] = "sleep"]
            /\ UNCHANGED _usability_lock
    /\ UNCHANGED <<now, _usable_dests, _last_usability_test, frame>>
    /\ NotOfSession /\ NotOfNext

\* The thread sleeps, holding the lock, and goes round the loop.
Sleep(t) ==
    /\ pc[t] = "sleep"
    /\ now + time_till_next_check <= MaxTime
    /\ now' = now + time_till_next_check
    /\ frame' = [frame EXCEPT ![t].slept = TRUE]
    /\ pc' = [pc EXCEPT ![t] = "check"]
    /\ UNCHANGED <<_usable_dests, _last_usability_test, _usability_lock>>
    /\ NotOfSession /\ NotOfNext

\* Outside the lock: the cached list is shuffled in place.
Shuffle(t) ==
    /\ pc[t] = "shuffle"
    /\ _usable_dests' \in shuffle(_usable_dests)
    /\ pc' = [pc EXCEPT ![t] = "return"]
    /\ UNCHANGED <<now, _last_usability_test, _usability_lock, frame>>
    /\ NotOfSession /\ NotOfNext

\* Outside the lock: the first element of the cached list is returned
\* (IndexError when the list is empty).
ReturnFirst(t) ==
    /\ pc[t] = "return"
    /\ IF Len(_usable_dests) > 0
       THEN /\ frame' = [frame EXCEPT ![t].result = _usable_dests[1]]
            /\ pc' = [pc EXCEPT ![t] = "returned"]
       ELSE /\ frame' = [frame EXCEPT ![t].fault = "IndexError"]
            /\ pc' = [pc EXCEPT ![t] = "raised"]
    /\ UNCHANGED <<now, _usable_dests, _last_usability_test, _usability_lock>>
    /\ NotOfSession /\ NotOfNext

\* The caller of next() takes what the call returned or raised.
Taken(t) ==
    /\ pc[t] \in {"returned", "raised"}
    /\ pc' = [pc EXCEPT ![t] = "idle"]
    /\ frame' = [frame EXCEPT ![t] = NoFrame]
    /\ UNCHANGED <<now, _usable_dests, _last_usability_test, _usability_lock>>
    /\ NotOfSession /\ NotOfNext

\* The state after DestinationList.__init__ over a session with relays
\* that are exits and relays that are not, at a time of day (the clock has
\* long passed one interval since its epoch).
InitDest ==
    /\ okay = TRUE
    /\ circuits = {}
    /\ nextCirc = 1
    /\ consensus = AllRelays
    /\ now = usability_test_interval + Epsilon
    /\ _relays = consensus
    /\ _last_refresh = now
    /\ built_circuits = {}
    /\ close_circuits_on_exit = TRUE
    /\ deleted = FALSE
    /\ unclosed = {}
    /\ ret = NoCall
    /\ \E kind \in {ExitRelay, ExitTo80Relay, NotExitRelay} :
          descriptors = [r \in AllRelays |-> kind]
    /\ NoDestinationList
    /\ keep = NoKeep
    /\ NoCallers

\* A step of one of the threads in next().
NextOfThread(t) ==
    \/ CallNext(t)
    \/ ShouldPerform(t)
    \/ Perform(t)
    \/ For(t)
    \/ Choice(t)
    \/ IsUsable(t)
    \/ CloseThrowaway(t)
    \/ StoreUsable(t)
    \/ StoreTime(t)
    \/ Release(t)
    \/ TestLen(t)
    \/ Sleep(t)
    \/ Shuffle(t)
    \/ ReturnFirst(t)
    \/ Taken(t)

\* Threads call next() of one DestinationList while time passes.
NextDest ==
    \/ \E t \in Threads : NextOfThread(t)
    \/ Tick /\ UNCHANGED destvars

SpecDest == InitDest /\ [][NextDest]_vars

\* The same, with every thread that can take a step taking one in the end
\* (the scheduler starves no runnable thread).
SpecDestFair ==
    SpecDest /\ \A t \in Threads : WF_vars(NextOfThread(t))



\* ------------------------------------------------------------------- claims
\* C1: whenever build_circuit returns a circuit id, that id is in
\* built_circuits in the state right after the call.
C1_BuiltCircuitInLiveSet ==
    (ret.op = "build_circuit" /\ ret.result # NoCircuit)
        => ret.result \in built_circuits

\* C2: after __del__ of a builder with close_circuits_on_exit and a healthy
\* session, no circuit that build_circuit returned and close_circuit was not
\* called for is still open in the session.
C2_TeardownClosesBuiltCircuits ==
    (ret.op = "__del__" /\ close_circuits_on_exit /\ okay)
        => unclosed \cap circuits = {}

\* C3: one call of the construction routine issues at most 3 create-circuit
\* calls, every one before the last of them failed, a returned id is the one
\* circuit the call added to the session, and after 3 transient faults the
\* call returns None, raises nothing and leaves built_circuits as it was.
C3_AtMostThreeAttempts ==
    [][(ret'.op = "build_circuit" /\ ret.op = "none") =>
          /\ ret'.creates <= 3
          /\ ret'.result # NoCircuit =>
                /\ ret'.creates = ret'.faults + 1
                /\ ret'.result \notin circuits
                /\ circuits' = circuits \cup {ret'.result}
          /\ ret'.result = NoCircuit =>
                /\ ret'.creates = ret'.faults
                /\ circuits' = circuits
          /\ ret'.faults = 3 =>
                /\ ret'.result = NoCircuit
                /\ ret'.fault = "none"
                /\ built_circuits' = built_circuits]_vars

\* C3 witness: a call whose three create-circuit calls all failed.
C3_Witness ==
    /\ ret.op = "build_circuit"
    /\ ret.impl
    /\ ret.faults = 3
    /\ ret.result = NoCircuit

C5_CloseOfUnknownIsNoOp ==
    [][(ret'.op = "close_circuit" /\ ret.op = "none") =>
          /\ ret'.circ_id \notin circuits =>
                /\ ret'.closes = 0
                /\ ret'.fault = "none"
                /\ circuits' = circuits
          /\ ret'.close_fault = "InvalidArguments" => ret'.fault = "none"]_vars

\* C5 witness: on a healthy session close_circuit returned without a close
\* call, for an id the session does not list.
C5_Witness ==
    /\ ret.op = "close_circuit"
    /\ okay
    /\ ret.closes = 0
    /\ ret.circ_id \notin circuits


\* The number of empty slots of a PathSpec.
EmptySlots(path) == Cardinality({i \in DOMAIN path : path[i] = NoneSlot})

\* The relays a PathSpec pins, by fingerprint or by nickname.
PinnedRelays(path) ==
    {r \in AllRelays : r.fingerprint \in Range(path) \/ r.nickname \in Range(path)}

\* C6: the path build_circuit hands to the construction routine holds no
\* fingerprint twice.
C6_NoFingerprintTwice ==
    (ret.op = "build_circuit" /\ ret.impl)
        => \A i, j \in DOMAIN ret.built : i # j => ret.built[i] # ret.built[j]

C8_SampleIsDistinctAndNotBlacklisted ==
    (ret.op = "_random_sample_relays" /\ ret.sampled)
        => /\ Len(ret.sample) = ret.number
           /\ \A i \in DOMAIN ret.sample :
                 /\ ret.sample[i] \in AllRelays
                 /\ \A j \in DOMAIN ret.blacklist :
                       ret.sample[i].fingerprint # ret.blacklist[j].fingerprint
           /\ \A i, j \in DOMAIN ret.sample :
                 i # j => ret.sample[i].fingerprint # ret.sample[j].fingerprint

\* C9: valid_circuit_length(p) holds exactly for 1 <= len(p) <= 8, and
\* build_circuit of a PathSpec of 0 or of more than 8 slots raises
\* PathLengthException with no call to the session made (no resolution, no
\* refresh or fetch, no create-circuit) and no circuit built.
C9_PathLengthCheckedFirst ==
    /\ \A p \in PathSpecs :
          valid_circuit_length(p) <=> (1 <= Len(p) /\ Len(p) <= 8)
    /\ (ret.op = "build_circuit" /\ (Len(ret.path) = 0 \/ Len(ret.path) > 8))
          => /\ ret.fault = "PathLengthException"
             /\ ret.resolves = 0
             /\ ret.refreshes = 0
             /\ ret.fetches = 0
             /\ ret.creates = 0
             /\ ~ret.impl
             /\ ret.result = NoCircuit
    /\ (ret.op = "build_circuit" /\ Len(ret.path) >= 1 /\ Len(ret.path) <= 8)
          => ret.fault # "PathLengthException"

\* C9 witness: build_circuit of a PathSpec of 9 slots raised.
C9_Witness ==
    /\ ret.op = "build_circuit"
    /\ Len(ret.path) = 9
    /\ ret.fault = "PathLengthException"

\* C10: a read of RelayList.relays less than REFRESH_INTERVAL after the last
\* refresh refreshes nothing and returns the cached snapshot as it is; a read
\* at or after it refreshes exactly once (one fetch on a healthy session,
\* whose result is stored and returned); no read returns a snapshot that was
\* REFRESH_INTERVAL old or older at the check.
C10_RefreshExactlyWhenStale ==
    [][(ret'.op = "relays" /\ ret.op = "none") =>
          /\ now < _last_refresh + REFRESH_INTERVAL =>
                /\ ret'.refreshes = 0
                /\ ret'.fetches = 0
                /\ ret'.fault = "none"
                /\ ret'.snapshot = _relays
                /\ _relays' = _relays
                /\ _last_refresh' = _last_refresh
          /\ now >= _last_refresh + REFRESH_INTERVAL =>
                /\ ret'.refreshes = 1
                /\ okay => /\ ret'.fetches = 1
                           /\ ret'.fault = "none"
                           /\ ret'.snapshot = consensus
                           /\ _relays' = consensus
                           /\ _last_refresh' = now
                /\ ~okay => ret'.fault # "none"
          /\ ret'.fault = "none" =>
                /\ ret'.snapshot = _relays'
                /\ now - _last_refresh' < REFRESH_INTERVAL]_vars

\* C10 witness: a read REFRESH_INTERVAL after construction that refreshed once
\* and returned the consensus the daemon had at that moment.
C10_Witness ==
    /\ ret.op = "relays"
    /\ ret.refreshes = 1
    /\ ret.fetches = 1
    /\ ret.fault = "none"
    /\ _last_refresh = now
    /\ now = REFRESH_INTERVAL
    /\ ret.snapshot = {Relay(1)}
    /\ consensus = {Relay(1)}

\* ----------------------------------------- the exit selection of the sweep
\* The sweep has the candidate exits of a destination.
InitKeep ==
    /\ okay = TRUE
    /\ circuits = {}
    /\ nextCirc = 1
    /\ consensus = AllRelays
    /\ now = 0
    /\ _relays = consensus
    /\ _last_refresh = now
    /\ built_circuits = {}
    /\ close_circuits_on_exit = TRUE
    /\ deleted = FALSE
    /\ unclosed = {}
    /\ ret = NoCall
    /\ descriptors = [r \in AllRelays |-> ExitRelay]
    /\ NoDestinationList
    /\ \E l \in CandidateLists :
          keep = [NoKeep EXCEPT !.stage = "candidates", !.possible_exits = l]
    /\ NoCallers

\* The candidates are sorted and the fastest kept.
KeepFastest ==
    /\ keep.stage = "candidates"
    /\ keep' = [keep EXCEPT !.stage = "kept",
                            !.exits = fastest_exits(keep.possible_exits)]
    /\ UNCHANGED <<buildervars, descriptors, _usable_dests,
                   _last_usability_test, _usability_lock,
                   stream_building_lock, listeners, pc, frame, reader,
                   history, sampling>>

\* One turn of the loop of three: a random one of the kept exits is pinned
\* behind an empty slot; the circuit gets built, which ends the loop, or not.
ChooseExit ==
    /\ keep.stage = "kept"
    /\ IF keep.exits = <<>>
       THEN keep' = [keep EXCEPT !.stage = "raised", !.fault = "IndexError"]
       ELSE \E exit \in Range(keep.exits), built \in BOOLEAN :
              keep' = [keep EXCEPT
                         !.tries = keep.tries + 1,
                         !.path = <<NoneSlot, exit.fingerprint>>,
                         !.stage = IF built \/ keep.tries + 1 = 3
                                   THEN "done" ELSE "kept"]
    /\ UNCHANGED <<buildervars, descriptors, _usable_dests,
                   _last_usability_test, _usability_lock,
                   stream_building_lock, listeners, pc, frame, reader,
                   history, sampling>>

NextKeep == KeepFastest \/ ChooseExit

SpecKeep == InitKeep /\ [][NextKeep]_vars

\* ------------------------------------------- exits_can_exit_to, on its own
\* A relay list that has just fetched relays of every kind.
InitExits ==
    /\ okay = TRUE
    /\ circuits = {}
    /\ nextCirc = 1
    /\ consensus = AllRelays
    /\ now = 0
    /\ _relays = consensus
    /\ _last_refresh = now
    /\ built_circuits = {}
    /\ close_circuits_on_exit = TRUE
    /\ deleted = FALSE
    /\ unclosed = {}
    /\ ret = NoCall
    /\ descriptors \in [AllRelays -> RelayKinds]
    /\ NoDestinationList
    /\ keep = NoKeep
    /\ NoCallers

\* A caller calls exits_can_exit_to for the port of a destination.
ExitsCanExitTo(p) ==
    /\ Idle
    /\ LET o == exits_can_exit_to(p)
       IN  /\ _relays' = o.relays
           /\ _last_refresh' = o.last_refresh
           /\ ret' = [NoCall EXCEPT !.op = "exits_can_exit_to",
                                    !.port = p,
                                    !.fault = o.fault,
                                    !.exits = o.exits,
                                    !.refreshes = o.refreshes,
                                    !.fetches = o.fetches]
    /\ UNCHANGED <<okay, circuits, nextCirc, consensus, now, built_circuits,
                   close_circuits_on_exit, deleted, unclosed>>

NextExits ==
    /\ \/ \E d \in 1..NumDests : ExitsCanExitTo(port(_all_dests[d]))
       \/ Tick
       \/ ConsensusChanges
       \/ ControllerDies
       \/ Return
    /\ UNCHANGED destvars

SpecExits == InitExits /\ [][NextExits]_vars

\* --------------------------- connect_to_destination_over_circuit, by thread
\* What a step of a thread in connect_to_destination_over_circuit leaves
\* alone.
NotOfConnect ==
    UNCHANGED <<okay, circuits, nextCirc, consensus, now, _relays,
                _last_refresh, built_circuits, close_circuits_on_exit, deleted,
                unclosed, ret, descriptors, _usable_dests,
                _last_usability_test, _usability_lock, keep, reader, history,
                sampling>>

\* Entering the with block whether or not the lock is held.
stream_lock_ignored == TRUE

\* sbws.util.stem.stream_building_lock is a lock: a thread holds it, or none.
stream_building_lock_locked == stream_building_lock # NoThread

\* `with stem_utils.stream_building_lock`: a thread gets past it when no
\* thread holds the lock.
stream_lock_free == ~stream_building_lock_locked

\* Thread t calls connect_to_destination_over_circuit with some max_dl.
CallConnect(t) ==
    /\ pc[t] = "idle"
    /\ ~deleted
    /\ \E m \in 0..MaxLength :
          frame' = [frame EXCEPT ![t] = [NoFrame EXCEPT !.max_dl = m]]
    /\ pc' = [pc EXCEPT ![t] = "with"]
    /\ UNCHANGED <<stream_building_lock, listeners>>
    /\ NotOfConnect

\* The thread enters the with block: it holds the stream-building lock.
EnterWith(t) ==
    /\ pc[t] = "with"
    /\ stream_lock_free
    /\ stream_building_lock' = t
    /\ pc' = [pc EXCEPT ![t] = "add_listener"]
    /\ UNCHANGED <<listeners, frame>>
    /\ NotOfConnect

\* The listener that attaches streams to the circuit is registered.
AddListener(t) ==
    /\ pc[t] = "add_listener"
    /\ listeners' = listeners \cup {t}
    /\ pc' = [pc EXCEPT ![t] = "head"]
    /\ UNCHANGED <<stream_building_lock, frame>>
    /\ NotOfConnect

\* requests_utils.head returns a response or raises.
SendHead(t) ==
    /\ pc[t] = "head"
    /\ \E head \in Heads : frame' = [frame EXCEPT ![t].head = head]
    /\ pc' = [pc EXCEPT ![t] = "finally"]
    /\ UNCHANGED <<stream_building_lock, listeners>>
    /\ NotOfConnect

\* The listener is removed after a HEAD that returned or whose fault was
\* caught, and stays after another fault.
remove_event_listener_unless_raised(t) ==
    IF frame[t].head.kind = "OtherError" THEN listeners ELSE listeners \ {t}

\* remove_event_listener(cont, listener): the registered listeners afterwards.
remove_event_listener(t) == listeners \ {t}

\* The finally clause: the listener is removed.
RemoveListener(t) ==
    /\ pc[t] = "finally"
    /\ listeners' = remove_event_listener(t)
    /\ pc' = [pc EXCEPT ![t] = "exit_with"]
    /\ UNCHANGED <<stream_building_lock, frame>>
    /\ NotOfConnect

\* The with block is left, which releases the lock, and the routine returns
\* its verdict on the response, or the fault goes on to the caller.
ExitWith(t) ==
    /\ pc[t] = "exit_with"
    /\ stream_building_lock' = NoThread
    /\ LET r == connect_result(frame[t].head, frame[t].max_dl)
       IN  /\ frame' = [frame EXCEPT ![t] = [NoFrame EXCEPT
                                                !.fault = r.fault,
                                                !.usable = r.usable,
                                                !.data = r.data]]
           /\ pc' = [pc EXCEPT ![t] = IF r.fault = "none"
                                      THEN "returned" ELSE "raised"]
    /\ UNCHANGED listeners
    /\ NotOfConnect

\* A step of one of the threads in connect_to_destination_over_circuit.
ConnectOfThread(t) ==
    \/ CallConnect(t)
    \/ EnterWith(t)
    \/ AddListener(t)
    \/ SendHead(t)
    \/ RemoveListener(t)
    \/ ExitWith(t)
    \/ Taken(t)

\* Threads attach streams to their circuits over one session.
InitStream == InitFill /\ consensus = AllRelays

NextStream == \E t \in Threads : ConnectOfThread(t)

SpecStream == InitStream /\ [][NextStream]_vars

\* Where a thread is while it holds the stream-building lock.
AttachingPcs == {"add_listener", "head", "finally", "exit_with"}

\* Where a thread is while _perform_usability_test runs, and while it is
\* inside the with block of next().
SweepPcs ==
    {"for", "choice", "is_usable", "close_circuit", "store_usable",
     "store_time", "release"}
LockedPcs == SweepPcs \cup {"check", "perform", "len", "sleep"}

\* Thread t takes a step.
StepOf(t) == pc'[t] # pc[t] \/ frame'[t] # frame[t]

\* C11: under any interleaving of concurrent callers of next(), the step
\* that picks the element returns a destination that is in the cached usable
\* list at that moment, and never fails because the list was replaced by an
\* empty one after the caller left the lock.
C11_ReturnsMemberOfCachedSubset ==
    [][\A t \in Threads :
        (pc[t] = "return" /\ StepOf(t))
            => /\ pc'[t] = "returned"
               /\ frame'[t].result \in Range(_usable_dests')]_vars

C13_ReplacedInFullThenTimestamp ==
    /\ [](Range(_usable_dests) \subseteq Range(_all_dests))
    /\ [][\A t \in Threads :
            /\ (pc[t] \in {"perform", "for", "choice", "is_usable",
                            "close_circuit"} /\ StepOf(t))
                 => /\ _usable_dests' = _usable_dests
                    /\ _last_usability_test' = _last_usability_test
            /\ (pc[t] = "store_usable" /\ StepOf(t))
                 => /\ frame[t].i = NumDests + 1
                    /\ _usable_dests' = frame[t].usable_dests
                    /\ _last_usability_test' = _last_usability_test
                    /\ pc'[t] = "store_time"
            /\ (pc[t] = "store_time" /\ StepOf(t))
                 => /\ _usable_dests' = _usable_dests
                    /\ _last_usability_test' = now
            /\ (\E u \in Threads : pc[u] \in SweepPcs \ {"store_time"})
                 => _last_usability_test' = _last_usability_test]_vars

\* C13 witness: a sweep that kept a destination has replaced the list and
\* set the time.
C13_Witness ==
    \E t \in Threads :
        /\ pc[t] = "release"
        /\ frame[t].usable_dests # <<>>
        /\ _usable_dests = frame[t].usable_dests
        /\ _last_usability_test = now

\* C15: with concurrent callers of next(), at most one thread is inside the
\* with block (so two sweeps never overlap and a caller evaluates its refresh
\* check only over a list and a time that a finished sweep left), and a sweep
\* starts only when the interval has passed since the last one finished.
C15_SweepsNeverOverlap ==
    /\ [](Cardinality({t \in Threads : pc[t] \in LockedPcs}) <= 1)
    /\ [][\A t \in Threads :
            (pc[t] = "perform" /\ StepOf(t))
                => _last_usability_test + usability_test_interval < now]_vars

\* C15 witness: a caller that got the lock after another caller's sweep is
\* at its refresh check, which does not start a sweep.
C15_Witness ==
    \E t, u \in Threads :
        /\ t # u
        /\ pc[t] = "check"
        /\ ~_should_perform_usability_test
        /\ pc[u] \in {"shuffle", "return", "returned"}
        /\ _last_usability_test > 0

\* C16: when a sweep is through with the destinations, none of the throwaway
\* circuits it built is still open in the session.
C16_ThrowawayCircuitsClosed ==
    \A t \in Threads :
        pc[t] \in {"store_usable", "store_time", "release"}
            => frame[t].built \cap circuits = {}

\* C17: a destination without a candidate exit, without a circuit after the
\* three attempts, or whose usability check fails is left out of the list of
\* the sweep and the sweep goes on with the next destination, raising
\* nothing.
C17_SweepGoesOnAfterBadDestination ==
    [][\A t \in Threads :
        LET dropped == /\ pc'[t] \in {"for", "store_usable"}
                       /\ frame'[t].i = frame[t].i + 1
                       /\ frame'[t].usable_dests = frame[t].usable_dests
                       /\ frame'[t].fault = "none"
        IN  /\ (pc[t] = "choice" /\ frame[t].exits = <<>> /\ StepOf(t))
                 => dropped
            /\ (pc[t] = "choice" /\ pc'[t] \notin {"choice", "is_usable"})
                 => dropped
            /\ (pc[t] = "is_usable"
                    /\ pc'[t] \notin {"is_usable", "close_circuit", "raised"})
                 => dropped]_vars

\* C14: at most one thread is between entering and leaving the with block
\* of connect_to_destination_over_circuit, at most one listener is
\* registered, it is that thread's, and a listener is registered only when
\* no other is.
C14_OneStreamAttachmentAtATime ==
    /\ [](/\ Cardinality({t \in Threads : pc[t] \in AttachingPcs}) <= 1
          /\ Cardinality(listeners) <= 1
          /\ \A t \in listeners : pc[t] \in {"head", "finally"})
    /\ [][\A t \in Threads :
            (t \notin listeners /\ t \in listeners') => listeners = {}]_vars

\* C14 witness: a thread waits at the with block while the listener of
\* another is registered.
C14_Witness ==
    \E t, u \in Threads :
        /\ t # u
        /\ pc[t] = "with"
        /\ pc[u] = "head"
        /\ listeners = {u}

\* C19: connect_to_destination_over_circuit (what Destination.is_usable
\* returns) says usable exactly for a response with the success code, a
\* content-length header and a content length of at least max_dl; a
\* ConnectionError or ReadTimeout of the HEAD is returned as not usable with
\* a reason and not raised.
C19_UsableIffResponseIsGood ==
    [][\A t \in Threads :
        (pc[t] = "exit_with" /\ StepOf(t))
            => LET h == frame[t].head
                   good == /\ h.kind = "response"
                           /\ h.status_code = HTTP_OK
                           /\ h.has_length
                           /\ h.content_length >= frame[t].max_dl
               IN  /\ (frame'[t].usable = "True") <=> good
                   /\ (h.kind = "response" /\ ~good)
                        => /\ pc'[t] = "returned"
                           /\ frame'[t].usable = "False"
                   /\ h.kind \in {"ConnectionError", "ReadTimeout"}
                        => /\ pc'[t] = "returned"
                           /\ frame'[t].fault = "none"
                           /\ frame'[t].usable = "False"
                           /\ frame'[t].data # "none"]_vars

\* C19 witness: a call has returned usable, another not usable.
C19_Witness ==
    \E t, u \in Threads :
        /\ pc[t] = "returned" /\ frame[t].usable = "True"
        /\ pc[u] = "returned" /\ frame[u].usable = "False"
        /\ frame[u].data = "could not connect"

\* C18: of n candidate exits the sweep keeps min(n, max(3, floor(n/10))) (5
\* of 50), each of them a candidate and none twice; no candidate it leaves
\* out is faster than one it keeps; every one of the at most 3 attempts
\* builds [empty, exit] with one of the kept exits pinned.
C18_KeepsFastestTenthOrThree ==
    keep.stage \in {"kept", "done", "raised"} =>
        LET n == Len(keep.possible_exits)
            tenth == n \div 10
            most == IF 3 > tenth THEN 3 ELSE tenth
            kept == Range(keep.exits)
        IN  /\ Len(keep.exits) = (IF n < most THEN n ELSE most)
            /\ n = 50 => Len(keep.exits) = 5
            /\ kept \subseteq Range(keep.possible_exits)
            /\ Cardinality(kept) = Len(keep.exits)
            /\ \A out \in Range(keep.possible_exits) \ kept :
                 \A e \in kept : out.bandwidth <= e.bandwidth
            /\ keep.tries <= 3
            /\ keep.tries > 0
                 => /\ Len(keep.path) = 2
                    /\ keep.path[1] = NoneSlot
                    /\ \E e \in kept : keep.path[2] = e.fingerprint

\* C18 witness: of 50 candidates 5 are kept, and the third attempt has
\* pinned one of them.
C18_Witness ==
    /\ keep.stage = "done"
    /\ Len(keep.possible_exits) = 50
    /\ Len(keep.exits) = 5
    /\ keep.tries = 3

\* Whether exits_can_exit_to is to include the i-th relay for port p: the
\* policy of its network status, else the one of its microdescriptor, is
\* there and accepts the port.
Permits(i, p) ==
    LET d == descriptors[Relay(i)]
        policy == IF d.exit_policy # "None" THEN d.exit_policy ELSE d.micro
    IN  \/ policy = "accept *:*"
        \/ policy = "accept *:80" /\ p = 80

\* C20: a call of exits_can_exit_to that did not fail to refresh the
\* snapshot raises nothing and returns, once each, exactly the relays of the
\* snapshot that have the Exit flag and whose policy permits the port,
\* whatever the descriptors and policies of the other relays do.
C20_ExactlyThePermittingExits ==
    [][(ret'.op = "exits_can_exit_to" /\ ret.op = "none")
        => /\ ret'.fault # "none"
                => /\ ret'.fault = "AssertionError"
                   /\ Stale /\ ~okay
           /\ ret'.fault = "none"
                => /\ Range(ret'.exits) =
                        {Exit(i) : i \in {j \in 1..NumRelays :
                            /\ Relay(j) \in _relays'
                            /\ descriptors[Relay(j)].exit
                            /\ Permits(j, ret'.port)}}
                   /\ Cardinality(Range(ret'.exits)) = Len(ret'.exits)]_vars

\* C20 witness: the call skipped the first relay, whose microdescriptor
\* was unavailable, and returned a later one.
C20_Witness ==
    /\ ret.op = "exits_can_exit_to"
    /\ ret.fault = "none"
    /\ Relay(1) \in _relays
    /\ descriptors[Relay(1)].exit
    /\ descriptors[Relay(1)].exit_policy = "None"
    /\ descriptors[Relay(1)].micro = "unavailable"
    /\ ret.exits = <<Exit(2)>>

\* ------------------------------------------ RelayList.relays, by thread
\* What a step of a thread in RelayList.relays leaves alone.
NotOfRelays ==
    UNCHANGED <<okay, circuits, nextCirc, consensus, now, built_circuits,
                close_circuits_on_exit, deleted, unclosed, ret, descriptors,
                _usable_dests, _last_usability_test, _usability_lock,
                stream_building_lock, listeners, frame, keep, sampling>>

\* Thread t reads the relays property: the staleness test sends it on to
\* _refresh, or to the return.
CallRelays(t) ==
    /\ pc[t] = "idle"
    /\ ~deleted
    /\ pc' = [pc EXCEPT ![t] = IF Stale THEN "_init_relays" ELSE "return"]
    /\ reader' = [reader EXCEPT ![t] = NoFetch]
    /\ UNCHANGED <<_relays, _last_refresh, history>>
    /\ NotOfRelays

\* _init_relays: on a healthy session one fetch of the network statuses is
\* issued and its result collected into a list of the thread's own; else
\* AssertionError leaves _refresh and the property.
InitRelays(t) ==
    /\ pc[t] = "_init_relays"
    /\ LET fetch == _init_relays
       IN  IF fetch.fault = "none"
           THEN /\ history' = [history EXCEPT !.issued = history.issued + 1]
                /\ reader' = [reader EXCEPT
                                ![t].relays = fetch.relays,
                                ![t].fetch = history.issued + 1]
                /\ pc' = [pc EXCEPT ![t] = "set_relays"]
           ELSE /\ reader' = [reader EXCEPT ![t].fault = fetch.fault]
                /\ pc' = [pc EXCEPT ![t] = "raised"]
                /\ UNCHANGED history
    /\ UNCHANGED <<_relays, _last_refresh>>
    /\ NotOfRelays

\* The list is stored together with what the old list held.
stored_in_place(t) == _relays \cup reader[t].relays

\* `self._relays = self._init_relays()`: what the field holds afterwards.
stored(t) == reader[t].relays

\* _refresh stores the list; the thread keeps no reference to it.
SetRelays(t) ==
    /\ pc[t] = "set_relays"
    /\ _relays' = stored(t)
    /\ history' = [history EXCEPT !.cached = reader[t].fetch,
                                  !.whole = reader[t].relays]
    /\ reader' = [reader EXCEPT ![t].relays = {}]
    /\ pc' = [pc EXCEPT ![t] = "set_last_refresh"]
    /\ UNCHANGED _last_refresh
    /\ NotOfRelays

\* _refresh stores the time.
SetLastRefresh(t) ==
    /\ pc[t] = "set_last_refresh"
    /\ _last_refresh' = now
    /\ history' = [history EXCEPT !.stamped = reader[t].fetch]
    /\ reader' = [reader EXCEPT ![t].fetch = 0]
    /\ pc' = [pc EXCEPT ![t] = "return"]
    /\ UNCHANGED _relays
    /\ NotOfRelays

\* `return self._relays`: the caller gets what the field holds now.
ReturnRelays(t) ==
    /\ pc[t] = "return"
    /\ reader' = [reader EXCEPT ![t].snapshot = _relays]
    /\ pc' = [pc EXCEPT ![t] = "returned"]
    /\ UNCHANGED <<_relays, _last_refresh, history>>
    /\ NotOfRelays

\* The caller takes the snapshot, or the fault.
TakenRelays(t) ==
    /\ pc[t] \in {"returned", "raised"}
    /\ pc' = [pc EXCEPT ![t] = "idle"]
    /\ reader' = [reader EXCEPT ![t] = NoFetch]
    /\ UNCHANGED <<_relays, _last_refresh, history>>
    /\ NotOfRelays

\* A refresh interval passes.
IntervalPasses ==
    /\ Idle
    /\ now + REFRESH_INTERVAL <= MaxTime
    /\ now' = now + REFRESH_INTERVAL
    /\ UNCHANGED <<ret, okay, circuits, nextCirc, consensus, _relays,
                   _last_refresh, built_circuits, close_circuits_on_exit,
                   deleted, unclosed>>

\* A relay leaves the consensus the daemon knows.
RelayLeaves ==
    /\ Idle
    /\ \E r \in consensus : consensus' = consensus \ {r}
    /\ UNCHANGED <<ret, okay, circuits, nextCirc, now, _relays, _last_refresh,
                   built_circuits, close_circuits_on_exit, deleted, unclosed>>

\* A step of one of the threads in RelayList.relays.
RelaysOfThread(t) ==
    \/ CallRelays(t)
    \/ InitRelays(t)
    \/ SetRelays(t)
    \/ SetLastRefresh(t)
    \/ ReturnRelays(t)
    \/ TakenRelays(t)

\* The state after RelayList.__init__: its _refresh issued the first fetch,
\* whose result and time the two fields hold.
InitRelayList ==
    /\ okay = TRUE
    /\ circuits = {}
    /\ nextCirc = 1
    /\ consensus \in SUBSET AllRelays
    /\ now = 0
    /\ _relays = consensus
    /\ _last_refresh = now
    /\ built_circuits = {}
    /\ close_circuits_on_exit = TRUE
    /\ deleted = FALSE
    /\ unclosed = {}
    /\ ret = NoCall
    /\ descriptors = [r \in AllRelays |-> ExitRelay]
    /\ NoDestinationList
    /\ keep = NoKeep
    /\ reader = [t \in Threads |-> NoFetch]
    /\ history = [issued |-> 1, cached |-> 1, stamped |-> 1,
                  whole |-> consensus]
    /\ sampling = NoSampling

\* Threads read the relays property of one RelayList while time passes (by
\* whole refresh intervals: the staleness test sees no other difference),
\* relays leave the consensus (so that a later fetch differs from an earlier
\* one) and the session may die.
NextRelayList ==
    \/ \E t \in Threads : RelaysOfThread(t)
    \/ IntervalPasses /\ UNCHANGED destvars
    \/ RelayLeaves /\ UNCHANGED destvars
    \/ ControllerDies /\ UNCHANGED destvars

SpecRelayList == InitRelayList /\ [][NextRelayList]_vars

\* C21: whatever the interleaving of the readers, the field always holds,
\* and every caller of RelayList.relays receives, the complete result of one
\* fetch: never a part of one, never a mix of two.
C21_SnapshotIsOneWholeFetch ==
    [][/\ _relays' = history'.whole
       /\ \A t \in Threads :
             (pc[t] = "return" /\ pc'[t] = "returned")
                 => reader'[t].snapshot = history.whole]_vars

\* C21 witness: two fetches with different results were in progress at
\* once, and a caller has received a snapshot while another thread, whose
\* fetch was issued before the one the snapshot is from, has yet to store
\* its own.
C21_Witness ==
    \E t, u \in Threads :
        /\ pc[t] = "returned"
        /\ pc[u] = "set_relays"
        /\ reader[u].fetch < history.cached
        /\ reader[u].relays # reader[t].snapshot
        /\ reader[t].snapshot = history.whole

\* C22: under concurrent refreshes the cached snapshot is never replaced by
\* the result of a fetch issued before the one whose result it holds, and
\* once no thread is between the two stores of _refresh the timestamp is
\* the one stored with the cached snapshot.
C22_NoStaleDataRace ==
    [][/\ history'.cached >= history.cached
       /\ (\A t \in Threads : pc'[t] # "set_last_refresh")
             => history'.stamped = history'.cached]_vars

\* C23: in connect_to_destination_over_circuit the listener is registered
\* (and the stream-building lock held) when the HEAD request is issued, and
\* when the function is left, by a return or by any fault, the listener is
\* deregistered and the lock released.
C23_ListenerAroundHead ==
    \A t \in Threads :
        /\ pc[t] = "head" => (t \in listeners /\ stream_building_lock = t)
        /\ pc[t] \in {"returned", "raised"}
              => (t \notin listeners /\ stream_building_lock # t)

\* C23 witness: a call was left by a fault the routine does not catch, and
\* another thread is already inside the with block, about to send its HEAD.
C23_Witness ==
    \E t, u \in Threads :
        /\ pc[t] = "raised"
        /\ frame[t].fault = "OtherError"
        /\ pc[u] = "head"
        /\ listeners = {u}

\* C24: whenever no call of next() is in progress the usability lock is
\* held by no thread: every acquire was matched by a release, also on the
\* way out of a sweep that a fault aborted.
C24_LockFreeBetweenCalls ==
    (\A t \in Threads : pc[t] \in {"idle", "returned", "raised"})
        => /\ _usability_lock.owner = NoThread
           /\ _usability_lock.count = 0

\* ------------------------------- _random_sample_relays, one turn at a time
\* The relays of the snapshots and blacklists the call is followed over.
Population == {Relay(i) : i \in 1..MaxSnapshot}

\* What a step of _random_sample_relays leaves alone (the snapshot is fresh:
\* reading self.relays fetches nothing).
NotOfSample ==
    UNCHANGED <<buildervars, descriptors, _usable_dests, _last_usability_test,
                _usability_lock, stream_building_lock, listeners, pc, frame,
                keep, reader, history>>

\* all_fps and black_fps are computed from the snapshot and the blacklist.
Fingerprints ==
    /\ sampling.stage = "called"
    /\ sampling' = [sampling EXCEPT
                       !.stage = "size_test",
                       !.all_fps = {r.fingerprint : r \in _relays},
                       !.black_fps = [i \in DOMAIN sampling.blacklist |->
                                         sampling.blacklist[i].fingerprint]]
    /\ NotOfSample

\* The size test: None is returned, or the loop is entered.
SizeTest ==
    /\ sampling.stage = "size_test"
    /\ sampling' = [sampling EXCEPT
                       !.stage = IF too_many_blacklisted(sampling.all_fps,
                                                         sampling.black_fps,
                                                         sampling.number)
                                 THEN "returned None" ELSE "while"]
    /\ NotOfSample

\* One turn of the loop: rng.choice(all_fps) raises on an empty list; a
\* choice that is in black_fps is dropped; any other is appended to
\* chosen_fps and to black_fps.
ChooseFingerprint ==
    /\ sampling.stage = "while"
    /\ Len(sampling.chosen_fps) < sampling.number
    /\ IF sampling.all_fps = {}
       THEN sampling' = [sampling EXCEPT !.stage = "raised",
                                         !.fault = "IndexError"]
       ELSE \E choice \in sampling.all_fps :
              IF choice \in Range(sampling.black_fps)
              THEN sampling' = [sampling EXCEPT !.choice = choice,
                                                !.dropped = TRUE]
              ELSE sampling' = [sampling EXCEPT
                                  !.choice = choice,
                                  !.chosen_fps = Append(@, choice),
                                  !.black_fps = Append(@, choice)]
    /\ NotOfSample

\* The loop is left with number fingerprints chosen; they are turned into
\* relays after it.
LeaveLoop ==
    /\ sampling.stage = "while"
    /\ Len(sampling.chosen_fps) >= sampling.number
    /\ sampling' = [sampling EXCEPT !.stage = "chosen"]
    /\ NotOfSample

\* A turn of the loop that appends a choice.
Accepted == ChooseFingerprint /\ sampling'.chosen_fps # sampling.chosen_fps

\* _random_sample_relays(number, blacklist) has been called over a fresh
\* snapshot; the blacklist may repeat a relay or hold one the snapshot lacks.
InitSample ==
    /\ okay = TRUE
    /\ circuits = {}
    /\ nextCirc = 1
    /\ consensus \in SUBSET Population
    /\ now = 0
    /\ _relays = consensus
    /\ _last_refresh = now
    /\ built_circuits = {}
    /\ close_circuits_on_exit = TRUE
    /\ deleted = FALSE
    /\ unclosed = {}
    /\ ret = NoCall
    /\ descriptors = [r \in AllRelays |-> ExitRelay]
    /\ NoDestinationList
    /\ keep = NoKeep
    /\ reader = [t \in Threads |-> NoFetch]
    /\ history = NoHistory
    /\ \E number \in 0..MaxSnapshot,
          blacklist \in UNION {[1..n -> Population] : n \in 0..MaxBlacklist} :
          sampling = [NoSampling EXCEPT !.stage = "called",
                                        !.number = number,
                                        !.blacklist = blacklist]

NextSample == Fingerprints \/ SizeTest \/ ChooseFingerprint \/ LeaveLoop

\* The call runs on, and the random choice is fair: a fingerprint that can
\* be drawn at every turn is drawn in the end.
SpecSample ==
    /\ InitSample
    /\ [][NextSample]_vars
    /\ WF_vars(Fingerprints \/ SizeTest \/ LeaveLoop)
    /\ WF_vars(Accepted)

\* The fingerprints of the snapshot the loop may still choose.
Eligible == sampling.all_fps \ Range(sampling.black_fps)

\* C25: once the size test of _random_sample_relays has passed, the loop
\* always has as many eligible fingerprints as it has picks left to make
\* (so it is never entered with fewer than number), and under fair choice
\* it ends with number picks, whatever the blacklist holds.
C25_LoopEndsWithNumberPicks ==
    /\ [](sampling.stage = "while"
            => Cardinality(Eligible)
                  >= sampling.number - Len(sampling.chosen_fps))
    /\ (sampling.stage = "while")
          ~> (/\ sampling.stage = "chosen"
              /\ Len(sampling.chosen_fps) = sampling.number)

\* C25 witness: the loop has dropped a choice and has ended with its picks
\* made, for a blacklist that names a relay twice.
C25_Witness ==
    /\ sampling.stage = "chosen"
    /\ sampling.number >= 1
    /\ Len(sampling.chosen_fps) = sampling.number
    /\ Len(sampling.blacklist) = 2
    /\ sampling.blacklist[1] = sampling.blacklist[2]
    /\ sampling.dropped
====
